---- MODULE Spec2Model ----
(***************************************************************************)
(* State-machine model of the reputation NFT contract                      *)
(* (contracts-offerhub/contracts/reputation-nft-contract).                 *)
(*                                                                         *)
(* The persistent storage of the contract is a record `s` of maps; every   *)
(* storage helper of storage.rs is an operator from a store to a store,    *)
(* and every public method of contract.rs is an operator that returns the  *)
(* result of the call, the store it commits and the ids it assigned.      *)
(* Every error is returned before the first write, so a failed call leaves *)
(* the store as it was; the host serialises invocations, so one call is    *)
(* one step.                                                               *)
(***************************************************************************)
EXTENDS Integers, Sequences, FiniteSets, TLC

VARIABLES owner, metadata, user_achievements, stats, leaderboard, counter,
          admin, minters, reputation, assigned, issued_to, issued_count

vars == <<owner, metadata, user_achievements, stats, leaderboard, counter,
          admin, minters, reputation, assigned, issued_to, issued_count>>

\* ---------------------------------------------------------------- bounds
MaxIssued == 2

MaxBatch == 2

\* ---------------------------------------------------------------- inputs
\* every caller is drawn from Principals; p1 and p2 can be administrator, p2
\* can be registered as minter, p2 and p3 can hold records
Principals == {"p1", "p2", "p3"}

Admins == {"p1", "p2"}

MinterCandidates == {"p2"}

Holders == {"p2", "p3"}

\* the ids given to the explicit-id mint: 0, which next_token_id never
\* returns, and 1, which it returns first
TokenIds == {0, 1}

Names == {"Test NFT"}

Descriptions == {"Test Description"}

Uris == {"ipfs://test"}

NftTypes == {"tencontr"}

RatingTypes == {"ten_ratings"}

ScoreInputs == {<<480, 50>>}

Timestamps == {0}

Nil == "nil"

\* ------------------------------------------------------------------ types
AchievementType ==
    {"Standard", "Reputation", "ProjectMilestone", "RatingMilestone", "CustomAchievement"}

Error ==
    {"Unauthorized", "TokenDoesNotExist", "TokenAlreadyExists", "AlreadyMinter",
     "NotMinter", "NonTransferableToken", "InvalidAchievementType"}

Metadata(name, description, uri, achievement_type) ==
    [name |-> name, description |-> description, uri |-> uri,
     achievement_type |-> achievement_type]

\* ------------------------------------------------- soroban Map operations
MapGet(m, k, default) == IF k \in DOMAIN m THEN m[k] ELSE default

MapSet(m, k, v) == [x \in (DOMAIN m) \cup {k} |-> IF x = k THEN v ELSE m[x]]

MapRemove(m, k) == [x \in (DOMAIN m) \ {k} |-> m[x]]

EmptyMap == [x \in {} |-> Nil]

\* The persistent store as one value.
Store ==
    [owner |-> owner, metadata |-> metadata, user_achievements |-> user_achievements,
     stats |-> stats, leaderboard |-> leaderboard, counter |-> counter,
     admin |-> admin, minters |-> minters, reputation |-> reputation]

Commit(s) ==
    /\ owner' = s.owner
    /\ metadata' = s.metadata
    /\ user_achievements' = s.user_achievements
    /\ stats' = s.stats
    /\ leaderboard' = s.leaderboard
    /\ counter' = s.counter
    /\ admin' = s.admin
    /\ minters' = s.minters
    /\ reputation' = s.reputation


\* ------------------------------------------------------------ storage.rs
save_token_owner(s, token_id, to) ==
    [s EXCEPT !.owner = MapSet(s.owner, token_id, to)]

\* slip: the existence test always answers false
token_exists_never(s, token_id) == FALSE

token_exists(s, token_id) == token_id \in DOMAIN s.owner

\* Ok(owner) or Err(TokenDoesNotExist)
get_token_owner(s, token_id) ==
    IF token_id \in DOMAIN s.owner
    THEN [ok |-> TRUE, val |-> s.owner[token_id]]
    ELSE [ok |-> FALSE, val |-> "TokenDoesNotExist"]

save_token_metadata(s, token_id, md) ==
    [s EXCEPT !.metadata = MapSet(s.metadata, token_id, md)]

get_token_metadata(s, token_id) ==
    IF token_id \in DOMAIN s.metadata
    THEN [ok |-> TRUE, val |-> s.metadata[token_id]]
    ELSE [ok |-> FALSE, val |-> "TokenDoesNotExist"]

\* slip: the list is created for a new user but never extended
index_user_achievement_new_only(s, user, token_id) ==
    IF user \in DOMAIN s.user_achievements THEN s
    ELSE [s EXCEPT !.user_achievements = MapSet(s.user_achievements, user, <<token_id>>)]

index_user_achievement(s, user, token_id) ==
    LET list == MapGet(s.user_achievements, user, <<>>)
    IN [s EXCEPT !.user_achievements = MapSet(s.user_achievements, user, Append(list, token_id))]

\* the list rebuilt without any occurrence of token_id, the rest in order
RECURSIVE FilterOut(_, _)
FilterOut(list, token_id) ==
    IF list = <<>> THEN <<>>
    ELSE IF Head(list) # token_id
         THEN <<Head(list)>> \o FilterOut(Tail(list), token_id)
         ELSE FilterOut(Tail(list), token_id)

\* the list without the first occurrence of token_id
WithoutFirst(list, token_id) ==
    IF \E i \in 1 .. Len(list) : list[i] = token_id
    THEN LET i == CHOOSE j \in 1 .. Len(list) :
                      list[j] = token_id /\ \A k \in 1 .. (j - 1) : list[k] # token_id
         IN SubSeq(list, 1, i - 1) \o SubSeq(list, i + 1, Len(list))
    ELSE list

\* slip: only the first occurrence is removed
remove_user_achievement_index_first(s, user, token_id) ==
    IF user \in DOMAIN s.user_achievements
    THEN [s EXCEPT !.user_achievements =
              MapSet(s.user_achievements, user,
                     WithoutFirst(s.user_achievements[user], token_id))]
    ELSE s

remove_user_achievement_index(s, user, token_id) ==
    IF user \in DOMAIN s.user_achievements
    THEN [s EXCEPT !.user_achievements =
              MapSet(s.user_achievements, user,
                     FilterOut(s.user_achievements[user], token_id))]
    ELSE s

get_user_achievements(s, user) == MapGet(s.user_achievements, user, <<>>)

\* slip: only the owner entry is removed, the metadata entry stays
burn_token_owner_only(s, token_id) ==
    [s EXCEPT !.owner = MapRemove(s.owner, token_id)]

burn_token(s, token_id) ==
    [s EXCEPT !.owner = MapRemove(s.owner, token_id),
              !.metadata = MapRemove(s.metadata, token_id)]

\* slip: the administrator is written only while none is stored
save_admin_once(s, a) == IF s.admin = Nil THEN [s EXCEPT !.admin = a] ELSE s

save_admin(s, a) == [s EXCEPT !.admin = a]

\* get_admin unwraps the stored value: it traps when no admin was ever saved
has_admin(s) == s.admin # Nil

get_admin(s) == s.admin

\* slip: the comparison inverted
is_admin_inverted(s, address) == get_admin(s) # address

\* slip: every address passes for the administrator
is_admin_anyone(s, address) == TRUE

is_admin(s, address) == get_admin(s) = address

get_minters(s) == s.minters

\* slip: the updated map is not written back
add_minter_not_saved(s, minter) == s

add_minter(s, minter) == [s EXCEPT !.minters = MapSet(get_minters(s), minter, TRUE)]

\* slip: a fresh map is written back when the minter is not in it
remove_minter_resets(s, minter) ==
    IF minter \in DOMAIN get_minters(s)
    THEN [s EXCEPT !.minters = MapRemove(get_minters(s), minter)]
    ELSE [s EXCEPT !.minters = EmptyMap]

remove_minter(s, minter) == [s EXCEPT !.minters = MapRemove(get_minters(s), minter)]

\* slip: every address passes for a registered minter
is_minter_anyone(s, address) == TRUE

is_minter(s, address) == address \in DOMAIN get_minters(s)

\* slip: the stored counter is not read back, every call starts from 0
next_token_id_stuck(s) == [s EXCEPT !.counter = 1]

\* the store with the counter advanced; the id returned is its new counter
next_token_id(s) == [s EXCEPT !.counter = s.counter + 1]

\* slip: the counter is set to one instead of incremented
update_achievement_stats_one(s, achievement_type) ==
    [s EXCEPT !.stats = MapSet(s.stats, achievement_type, 1)]

update_achievement_stats(s, achievement_type) ==
    LET count == MapGet(s.stats, achievement_type, 0)
    IN [s EXCEPT !.stats = MapSet(s.stats, achievement_type, count + 1)]

get_achievement_stats(s) == s.stats

\* slip: the entry is incremented instead of recomputed
update_leaderboard_increment(s, user) ==
    [s EXCEPT !.leaderboard = MapSet(s.leaderboard, user, MapGet(s.leaderboard, user, 0) + 1)]

update_leaderboard(s, user) ==
    [s EXCEPT !.leaderboard =
        MapSet(s.leaderboard, user, Len(get_user_achievements(s, user)))]

get_leaderboard(s) == s.leaderboard

\* slip: entries of equal value are counted too
get_user_rank_or_equal(s, user) ==
    LET lb == get_leaderboard(s)
        user_score == MapGet(lb, user, 0)
    IN 1 + Cardinality({p \in DOMAIN lb : lb[p] >= user_score})

\* slip: the comparison is turned around
get_user_rank_reversed(s, user) ==
    LET lb == get_leaderboard(s)
        user_score == MapGet(lb, user, 0)
    IN 1 + Cardinality({p \in DOMAIN lb : lb[p] < user_score})

get_user_rank(s, user) ==
    LET lb == get_leaderboard(s)
        user_score == MapGet(lb, user, 0)
    IN 1 + Cardinality({p \in DOMAIN lb : lb[p] > user_score})

\* ------------------------------------------- metadata.rs, access.rs (spec)
\* spec 4.3 reissue_metadata / issue: writes the metadata entry of the id,
\* replacing one that is there
store_metadata(s, token_id, name, description, uri, achievement_type) ==
    save_token_metadata(s, token_id, Metadata(name, description, uri, achievement_type))

\* spec 4.2 authorize_mint: "Ok" iff caller is administrator or in the minter
\* set; the administrator is read with get_admin, which traps before init
check_minter(s, caller) ==
    IF ~has_admin(s) THEN "Panic"
    ELSE IF is_admin(s, caller) \/ is_minter(s, caller) THEN "Ok"
    ELSE "Unauthorized"

\* spec 4.2 authorize_owner_action: the authentication collaborator confirms
\* that the call comes from `address`
check_owner(s, address, authenticated) ==
    IF authenticated THEN "Ok" ELSE "Unauthorized"

\* spec 4.2: requires is_administrator(caller)
check_admin(s, caller) ==
    IF ~has_admin(s) THEN "Panic"
    ELSE IF is_admin(s, caller) THEN "Ok"
    ELSE "Unauthorized"

\* ------------------------------------------------------------ contract.rs
\* The value of a call: its result, the store it leaves, the ids it assigned
\* through next_token_id (in order).
Ret(res, s, ids) == [res |-> res, st |-> s, ids |-> ids]

\* save_token_owner, store_metadata, index_user_achievement and
\* update_achievement_stats, as every issuance path writes them
write_record(s, to, token_id, text, achievement_type) ==
    LET s1 == save_token_owner(s, token_id, to)
        s2 == store_metadata(s1, token_id, text[1], text[2], text[3], achievement_type)
        s3 == index_user_achievement(s2, to, token_id)
    IN update_achievement_stats(s3, achievement_type)

init(s, a) == Ret("Ok", save_admin(s, a), <<>>)

mint(s, caller, to, token_id, name, description, uri) ==
    LET auth == check_minter(s, caller)
    IN IF auth # "Ok" THEN Ret(auth, s, <<>>)
       ELSE IF token_exists(s, token_id) THEN Ret("TokenAlreadyExists", s, <<>>)
       ELSE Ret("Ok", write_record(s, to, token_id, <<name, description, uri>>, "Standard"), <<>>)

mint_achv_text(nft_type) ==
    CASE nft_type = "tencontr" ->
           <<"10 Completed Contracts", "Awarded for completing 10 contracts successfully.",
             "ipfs://10-completed-contracts">>
      [] nft_type = "5stars5x" ->
           <<"5 Stars 5 Times", "Awarded for receiving five 5-star reviews.",
             "ipfs://5-stars-5-times">>
      [] nft_type = "toprated" ->
           <<"Top Rated Freelancer", "Awarded for being a top-rated freelancer.",
             "ipfs://top-rated-freelancer">>
      [] OTHER ->
           <<"Achievement NFT", "Awarded for a special achievement.",
             "ipfs://achievement-generic">>

\* slip: a tag outside the three known ones is refused
mint_achv_known_only(s, caller, to, nft_type) ==
    LET auth == check_minter(s, caller)
        s1 == next_token_id(s)
        token_id == s1.counter
    IN IF auth # "Ok" THEN Ret(auth, s, <<>>)
       ELSE IF nft_type \notin {"tencontr", "5stars5x", "toprated"}
            THEN Ret("InvalidAchievementType", s, <<>>)
       ELSE Ret("Ok", write_record(s1, to, token_id, mint_achv_text(nft_type), "ProjectMilestone"),
                <<token_id>>)

mint_achv(s, caller, to, nft_type) ==
    LET auth == check_minter(s, caller)
        s1 == next_token_id(s)
        token_id == s1.counter
    IN IF auth # "Ok" THEN Ret(auth, s, <<>>)
       ELSE Ret("Ok", write_record(s1, to, token_id, mint_achv_text(nft_type), "ProjectMilestone"),
                <<token_id>>)

\* slip: RatingMilestone listed among the transferable categories
Transferable_with_rating == {"Standard", "CustomAchievement", "RatingMilestone"}

\* slip: ProjectMilestone listed among the transferable categories
Transferable_with_project == {"Standard", "CustomAchievement", "ProjectMilestone"}

\* slip: Standard left out of the transferable categories
Transferable_custom_only == {"CustomAchievement"}

Transferable == {"Standard", "CustomAchievement"}

\* slip: the category is read before the owner is compared with from
transfer_category_first(s, from, to, token_id, authenticated) ==
    LET o == get_token_owner(s, token_id)
        md == get_token_metadata(s, token_id)
        s1 == save_token_owner(s, token_id, to)
        s2 == remove_user_achievement_index(s1, from, token_id)
        s3 == index_user_achievement(s2, to, token_id)
        s4 == update_leaderboard(s3, from)
        s5 == update_leaderboard(s4, to)
    IN IF ~o.ok THEN Ret(o.val, s, <<>>)
       ELSE IF ~md.ok THEN Ret(md.val, s, <<>>)
       ELSE IF md.val.achievement_type \notin Transferable
            THEN Ret("NonTransferableToken", s, <<>>)
       ELSE IF o.val # from THEN Ret("Unauthorized", s, <<>>)
       ELSE IF check_owner(s, from, authenticated) # "Ok"
            THEN Ret(check_owner(s, from, authenticated), s, <<>>)
       ELSE Ret("Ok", s5, <<>>)

\* slip: a transfer is counted in the statistics like an issuance
transfer_counts_stats(s, from, to, token_id, authenticated) ==
    LET o == get_token_owner(s, token_id)
        md == get_token_metadata(s, token_id)
        s1 == save_token_owner(s, token_id, to)
        s2 == remove_user_achievement_index(s1, from, token_id)
        s3 == index_user_achievement(s2, to, token_id)
        s4 == update_leaderboard(s3, from)
        s5 == update_leaderboard(s4, to)
    IN IF ~o.ok THEN Ret(o.val, s, <<>>)
       ELSE IF o.val # from THEN Ret("Unauthorized", s, <<>>)
       ELSE IF check_owner(s, from, authenticated) # "Ok"
            THEN Ret(check_owner(s, from, authenticated), s, <<>>)
       ELSE IF ~md.ok THEN Ret(md.val, s, <<>>)
       ELSE IF md.val.achievement_type \notin Transferable
            THEN Ret("NonTransferableToken", s, <<>>)
       ELSE Ret("Ok", update_achievement_stats(s5, md.val.achievement_type), <<>>)

transfer(s, from, to, token_id, authenticated) ==
    LET o == get_token_owner(s, token_id)
        md == get_token_metadata(s, token_id)
        s1 == save_token_owner(s, token_id, to)
        s2 == remove_user_achievement_index(s1, from, token_id)
        s3 == index_user_achievement(s2, to, token_id)
        s4 == update_leaderboard(s3, from)
        s5 == update_leaderboard(s4, to)
    IN IF ~o.ok THEN Ret(o.val, s, <<>>)
       ELSE IF o.val # from THEN Ret("Unauthorized", s, <<>>)
       ELSE IF check_owner(s, from, authenticated) # "Ok"
            THEN Ret(check_owner(s, from, authenticated), s, <<>>)
       ELSE IF ~md.ok THEN Ret(md.val, s, <<>>)
       ELSE IF md.val.achievement_type \notin Transferable
            THEN Ret("NonTransferableToken", s, <<>>)
       ELSE Ret("Ok", s5, <<>>)

\* access.rs (spec 4.2): add_minter / remove_minter / transfer_admin
add_minter_impl(s, caller, minter) ==
    LET auth == check_admin(s, caller)
    IN IF auth # "Ok" THEN Ret(auth, s, <<>>) ELSE Ret("Ok", add_minter(s, minter), <<>>)

remove_minter_impl(s, caller, minter) ==
    LET auth == check_admin(s, caller)
    IN IF auth # "Ok" THEN Ret(auth, s, <<>>) ELSE Ret("Ok", remove_minter(s, minter), <<>>)

transfer_admin_impl(s, caller, new_admin) ==
    LET auth == check_admin(s, caller)
    IN IF auth # "Ok" THEN Ret(auth, s, <<>>) ELSE Ret("Ok", save_admin(s, new_admin), <<>>)

mint_rating_achievement_text(achievement_type) ==
    CASE achievement_type = "first_five_star" ->
           <<"First Five Star Rating", "Awarded for receiving first 5-star rating",
             "ipfs://first-five-star">>
      [] achievement_type = "ten_ratings" ->
           <<"Ten Ratings Milestone", "Awarded for receiving 10 ratings", "ipfs://ten-ratings">>
      [] achievement_type = "top_rated_professional" ->
           <<"Top Rated Professional", "Awarded for maintaining excellent ratings",
             "ipfs://top-rated-pro">>
      [] achievement_type = "rating_consistency" ->
           <<"Consistency Master", "Awarded for consistent high-quality ratings",
             "ipfs://consistency-master">>
      [] OTHER ->
           <<"Rating Achievement", "Special rating-based achievement",
             "ipfs://rating-achievement">>

mint_rating_achievement(s, caller, to, achievement_type) ==
    LET auth == check_minter(s, caller)
        s1 == next_token_id(s)
        token_id == s1.counter
    IN IF auth # "Ok" THEN Ret(auth, s, <<>>)
       ELSE Ret("Ok",
                write_record(s1, to, token_id, mint_rating_achievement_text(achievement_type),
                             "RatingMilestone"),
                <<token_id>>)

\* slip: the owner's index is not cleaned
burn_keeps_index(s, caller, token_id) ==
    LET auth == check_minter(s, caller)
        o == get_token_owner(s, token_id)
    IN IF auth # "Ok" THEN Ret(auth, s, <<>>)
       ELSE IF ~o.ok THEN Ret(o.val, s, <<>>)
       ELSE Ret("Ok", burn_token(s, token_id), <<>>)

\* slip: the record is looked up before the caller is checked
burn_lookup_first(s, caller, token_id) ==
    LET auth == check_minter(s, caller)
        o == get_token_owner(s, token_id)
    IN IF ~o.ok THEN Ret(o.val, s, <<>>)
       ELSE IF auth # "Ok" THEN Ret(auth, s, <<>>)
       ELSE Ret("Ok", burn_token(remove_user_achievement_index(s, o.val, token_id), token_id), <<>>)

\* slip: the leaderboard entry of the owner is recomputed after the burn
burn_refreshes(s, caller, token_id) ==
    LET auth == check_minter(s, caller)
        o == get_token_owner(s, token_id)
    IN IF auth # "Ok" THEN Ret(auth, s, <<>>)
       ELSE IF ~o.ok THEN Ret(o.val, s, <<>>)
       ELSE Ret("Ok",
                update_leaderboard(
                    burn_token(remove_user_achievement_index(s, o.val, token_id), token_id),
                    o.val),
                <<>>)

burn(s, caller, token_id) ==
    LET auth == check_minter(s, caller)
        o == get_token_owner(s, token_id)
    IN IF auth # "Ok" THEN Ret(auth, s, <<>>)
       ELSE IF ~o.ok THEN Ret(o.val, s, <<>>)
       ELSE Ret("Ok", burn_token(remove_user_achievement_index(s, o.val, token_id), token_id), <<>>)

\* the while loop of batch_mint from index i (1-based here), ids consumed so far
RECURSIVE batch_mint_loop(_, _, _, _, _, _, _)
batch_mint_loop(s, ids, i, tos, names, descriptions, uris) ==
    IF i > Len(tos) THEN Ret("Ok", s, ids)
    ELSE LET s1 == next_token_id(s)
             token_id == s1.counter
             s2 == write_record(s1, tos[i], token_id,
                                <<names[i], descriptions[i], uris[i]>>, "Standard")
         IN batch_mint_loop(s2, Append(ids, token_id), i + 1, tos, names, descriptions, uris)

\* the least of a non-empty set of numbers
Min(S) == CHOOSE x \in S : \A y \in S : x <= y

\* slip: sequences of different lengths are cut to the shortest
batch_mint_shortest(s, caller, tos, names, descriptions, uris) ==
    LET auth == check_minter(s, caller)
        len == Min({Len(tos), Len(names), Len(descriptions), Len(uris)})
    IN IF auth # "Ok" THEN Ret(auth, s, <<>>)
       ELSE batch_mint_loop(s, <<>>, 1, SubSeq(tos, 1, len), SubSeq(names, 1, len),
                            SubSeq(descriptions, 1, len), SubSeq(uris, 1, len))

\* a sequence back to front
Reverse(seq) == [i \in 1 .. Len(seq) |-> seq[Len(seq) + 1 - i]]

\* slip: the entries are processed from the last to the first
batch_mint_backwards(s, caller, tos, names, descriptions, uris) ==
    LET auth == check_minter(s, caller)
        len == Len(tos)
    IN IF auth # "Ok" THEN Ret(auth, s, <<>>)
       ELSE IF Len(names) # len \/ Len(descriptions) # len \/ Len(uris) # len
            THEN Ret("Unauthorized", s, <<>>)
       ELSE batch_mint_loop(s, <<>>, 1, Reverse(tos), Reverse(names), Reverse(descriptions),
                            Reverse(uris))

batch_mint(s, caller, tos, names, descriptions, uris) ==
    LET auth == check_minter(s, caller)
        len == Len(tos)
    IN IF auth # "Ok" THEN Ret(auth, s, <<>>)
       ELSE IF Len(names) # len \/ Len(descriptions) # len \/ Len(uris) # len
            THEN Ret("Unauthorized", s, <<>>)
       ELSE batch_mint_loop(s, <<>>, 1, tos, names, descriptions, uris)

store_reputation_score(s, user, rating_average, total_ratings, timestamp) ==
    [s EXCEPT !.reputation =
        MapSet(s.reputation, user, <<rating_average, total_ratings, timestamp>>)]

mint_milestone_text(milestone_type) ==
    CASE milestone_type = "ten_excellent" ->
           <<"Excellence Milestone", "Awarded for 10+ excellent ratings",
             "ipfs://excellence-milestone">>
      [] milestone_type = "top_rated_pro" ->
           <<"Top Rated Professional", "Awarded for exceptional rating performance",
             "ipfs://top-rated-professional">>
      [] milestone_type = "veteran_pro" ->
           <<"Veteran Professional", "Awarded for long-term excellent performance",
             "ipfs://veteran-professional">>
      [] OTHER -> <<>>

\* slip: the milestone is stored with the category of mint_achv
mint_milestone_nft_project(s, user, token_id, milestone_type) ==
    IF mint_milestone_text(milestone_type) = <<>> THEN s
    ELSE write_record(s, user, token_id, mint_milestone_text(milestone_type), "ProjectMilestone")

mint_milestone_nft(s, user, token_id, milestone_type) ==
    IF mint_milestone_text(milestone_type) = <<>> THEN s
    ELSE write_record(s, user, token_id, mint_milestone_text(milestone_type), "RatingMilestone")

\* one threshold rule: when it matches, an id is taken and the milestone minted
award(r, matches, user, milestone_type) ==
    IF matches
    THEN LET s1 == next_token_id(r.st)
         IN Ret("Ok", mint_milestone_nft(s1, user, s1.counter, milestone_type),
                Append(r.ids, s1.counter))
    ELSE r

\* slip: the first rule asks for at least ten ratings
check_rating_achievements_ge10(s, user, rating_average, total_ratings) ==
    LET r1 == award(Ret("Ok", s, <<>>), total_ratings >= 10 /\ rating_average >= 400,
                    user, "ten_excellent")
        r2 == award(r1, rating_average >= 480 /\ total_ratings >= 20, user, "top_rated_pro")
    IN award(r2, total_ratings >= 50 /\ rating_average >= 450, user, "veteran_pro")

check_rating_achievements(s, user, rating_average, total_ratings) ==
    LET r1 == award(Ret("Ok", s, <<>>), total_ratings = 10 /\ rating_average >= 400,
                    user, "ten_excellent")
        r2 == award(r1, rating_average >= 480 /\ total_ratings >= 20, user, "top_rated_pro")
    IN award(r2, total_ratings >= 50 /\ rating_average >= 450, user, "veteran_pro")

\* slip: the leaderboard entry is recomputed before the milestones are issued
update_reputation_score_rank_first(s, caller, user, rating_average, total_ratings, timestamp) ==
    LET auth == check_minter(s, caller)
        s1 == store_reputation_score(s, user, rating_average, total_ratings, timestamp)
        s2 == update_leaderboard(s1, user)
        r == check_rating_achievements(s2, user, rating_average, total_ratings)
    IN IF auth # "Ok" THEN Ret(auth, s, <<>>)
       ELSE Ret("Ok", r.st, r.ids)

\* slip: the score is stored before the caller is checked
update_reputation_score_store_first(s, caller, user, rating_average, total_ratings, timestamp) ==
    LET auth == check_minter(s, caller)
        s1 == store_reputation_score(s, user, rating_average, total_ratings, timestamp)
        r == check_rating_achievements(s1, user, rating_average, total_ratings)
    IN IF auth # "Ok" THEN Ret(auth, s1, <<>>)
       ELSE Ret("Ok", update_leaderboard(r.st, user), r.ids)

update_reputation_score(s, caller, user, rating_average, total_ratings, timestamp) ==
    LET auth == check_minter(s, caller)
        s1 == store_reputation_score(s, user, rating_average, total_ratings, timestamp)
        r == check_rating_achievements(s1, user, rating_average, total_ratings)
    IN IF auth # "Ok" THEN Ret(auth, s, <<>>)
       ELSE Ret("Ok", update_leaderboard(r.st, user), r.ids)

\* ------------------------------------------------------------ the machine
\* all sequences over S of length at most n
SeqsUpTo(S, n) == UNION {[1 .. k -> S] : k \in 0 .. n}

Range(f) == {f[x] : x \in DOMAIN f}

RECURSIVE SumOver(_, _)
SumOver(m, keys) ==
    IF keys = {} THEN 0
    ELSE LET k == CHOOSE x \in keys : TRUE
         IN m[k] + SumOver(m, keys \ {k})

\* number of records issued so far (the sum of the category counters)
Issued(s) == SumOver(s.stats, DOMAIN s.stats)

\* the category under which each issuing method issues its records
CategoryOf(op) ==
    CASE op \in {"mint", "batch_mint"} -> "Standard"
      [] op = "mint_achv" -> "ProjectMilestone"
      [] op \in {"mint_rating_achievement", "update_reputation_score"} -> "RatingMilestone"
      [] OTHER -> Nil

\* One call of a public method: `r` is its value, `written` the ids whose
\* record it wrote.  The call commits its store; `assigned` keeps
\* the ids handed out by next_token_id so far,
\* `issued_to` the principal each existing record was issued to, and
\* `issued_count` the number of records issued so far by the methods of each
\* category.
Call(op, r, written) ==
    \E v \in {r} :
        /\ Issued(v.st) <= MaxIssued
        /\ Commit(v.st)
        /\ assigned' = assigned \o v.ids
        /\ issued_to' = [id \in DOMAIN v.st.owner |->
                            IF id \in written THEN v.st.owner[id] ELSE issued_to[id]]
        /\ issued_count' = [c \in AchievementType |->
                               IF c = CategoryOf(op)
                               THEN issued_count[c] + Cardinality(written)
                               ELSE issued_count[c]]

Init ==
    /\ owner = EmptyMap
    /\ metadata = EmptyMap
    /\ user_achievements = EmptyMap
    /\ stats = EmptyMap
    /\ leaderboard = EmptyMap
    /\ counter = 0
    /\ admin = Nil
    /\ minters = EmptyMap
    /\ reputation = EmptyMap
    /\ assigned = <<>>
    /\ issued_to = EmptyMap
    /\ issued_count = [c \in AchievementType |-> 0]

DoInit ==
    \E a \in Admins : Call("init", init(Store, a), {})

DoMint ==
    \E caller \in Principals, to \in Holders, token_id \in TokenIds,
       name \in Names, description \in Descriptions, uri \in Uris :
        LET r == mint(Store, caller, to, token_id, name, description, uri)
        IN Call("mint", r, IF r.res = "Ok" THEN {token_id} ELSE {})

DoMintAchv ==
    \E caller \in Principals, to \in Holders, nft_type \in NftTypes :
        LET r == mint_achv(Store, caller, to, nft_type)
        IN Call("mint_achv", r, Range(r.ids))

DoTransfer ==
    \E from \in Principals, to \in Holders, token_id \in TokenIds,
       authenticated \in BOOLEAN :
        Call("transfer", transfer(Store, from, to, token_id, authenticated), {})

DoAddMinter ==
    \E caller \in Principals, minter \in MinterCandidates :
        Call("add_minter", add_minter_impl(Store, caller, minter), {})

DoRemoveMinter ==
    \E caller \in Principals, minter \in MinterCandidates :
        Call("remove_minter", remove_minter_impl(Store, caller, minter), {})

DoTransferAdmin ==
    \E caller \in Principals, new_admin \in Admins :
        Call("transfer_admin", transfer_admin_impl(Store, caller, new_admin), {})

DoMintRatingAchievement ==
    \E caller \in Principals, to \in Holders, achievement_type \in RatingTypes :
        LET r == mint_rating_achievement(Store, caller, to, achievement_type)
        IN Call("mint_rating_achievement", r, Range(r.ids))

DoBurn ==
    \E caller \in Principals, token_id \in TokenIds :
        Call("burn", burn(Store, caller, token_id), {})

\* a sequence of n copies of x
Copies(n, x) == [i \in 1 .. n |-> x]

\* The input shapes drawn for batch_mint: four sequences of one length
\* (off = 0), or names, descriptions or uris (off = 1, 2, 3) of another length.
OtherLen(n) == (n + 1) % (MaxBatch + 1)

DoBatchMint ==
    \E caller \in Principals, tos \in SeqsUpTo(Holders, MaxBatch) :
        /\ Issued(Store) + Len(tos) <= MaxIssued
        /\ \E off \in 0 .. 3, name \in Names, description \in Descriptions, uri \in Uris :
            LET names == Copies(IF off = 1 THEN OtherLen(Len(tos)) ELSE Len(tos), name)
                descriptions ==
                    Copies(IF off = 2 THEN OtherLen(Len(tos)) ELSE Len(tos), description)
                uris == Copies(IF off = 3 THEN OtherLen(Len(tos)) ELSE Len(tos), uri)
                r == batch_mint(Store, caller, tos, names, descriptions, uris)
            IN Call("batch_mint", r, Range(r.ids))

DoUpdateReputationScore ==
    \E caller \in Principals, user \in Holders, score \in ScoreInputs,
       timestamp \in Timestamps :
        LET r == update_reputation_score(Store, caller, user, score[1], score[2], timestamp)
        IN Call("update_reputation_score", r, Range(r.ids))

Next ==
    \/ DoInit
    \/ DoMint
    \/ DoMintAchv
    \/ DoTransfer
    \/ DoAddMinter
    \/ DoRemoveMinter
    \/ DoTransferAdmin
    \/ DoMintRatingAchievement
    \/ DoBurn
    \/ DoBatchMint
    \/ DoUpdateReputationScore

Spec == Init /\ [][Next]_vars

\* ------------------------------------------------------------ the claims
\* The claims about one call are stated over every call that can be made in
\* a reachable state: the method applied to the current store.

\* every id a record can have within the bounds
AllIds == 0 .. (MaxIssued + 1)

AllNames == {"Test NFT", "Token 2"}

AllNftTypes == {"tencontr", "5stars5x", "toprated", "other"}

AllRatingTypes ==
    {"first_five_star", "ten_ratings", "top_rated_professional", "rating_consistency", "other"}

AllScores ==
    {<<399, 10>>, <<400, 10>>, <<400, 20>>, <<480, 20>>, <<450, 50>>, <<480, 50>>}

\* caller is the administrator or a registered minter
Authorized(caller) == admin # Nil /\ (caller = admin \/ caller \in DOMAIN minters)

Exists(id) == id \in DOMAIN owner

Occurrences(list, id) == Cardinality({i \in 1 .. Len(list) : list[i] = id})

\* an id handed out by next_token_id whose record is gone: it was burned
SomeBurned == \E id \in 1 .. counter : ~Exists(id)

\* C1: in every reachable state, for every token id, get_owner(id) succeeds
\* iff get_metadata(id) succeeds.
C1_Pairing ==
    \A id \in AllIds :
        get_token_owner(Store, id).ok <=> get_token_metadata(Store, id).ok

\* records exist, and one was issued and burned
C1_Witness == SomeBurned /\ \E id \in AllIds : Exists(id)

\* C2: in every reachable state, id appears in get_user_achievements(p) iff
\* the record id exists and get_owner(id) = p.
C2_IndexAuthoritative ==
    \A p \in Principals, id \in AllIds :
        (Occurrences(get_user_achievements(Store, p), id) > 0)
            <=> (get_token_owner(Store, id).ok /\ get_token_owner(Store, id).val = p)

\* C3: the ids assigned by the auto-id paths are strictly increasing and never
\* repeat; the first assigned id is 1 and 0 is never assigned.
C3_IdUniqueness ==
    /\ \A i, j \in 1 .. Len(assigned) : i < j => assigned[i] < assigned[j]
    /\ Len(assigned) > 0 => assigned[1] = 1
    /\ \A i \in 1 .. Len(assigned) : assigned[i] # 0

C3_Witness == Len(assigned) >= 2

\* the records that exist before a call are the same after it
RecordsKept(r) ==
    \A id \in DOMAIN owner :
        /\ get_token_owner(r.st, id) = get_token_owner(Store, id)
        /\ get_token_metadata(r.st, id) = get_token_metadata(Store, id)

\* C4: an issuance (explicit-id mint or any auto-id path) whose target id
\* already has an owner entry fails with TokenAlreadyExists, so the owner and
\* metadata of an existing record are never replaced by an issuance.
C4_IssuanceNeverOverwrites ==
    \A caller \in Principals, to \in Holders :
        Authorized(caller) =>
            /\ \A id \in AllIds, name \in AllNames :
                 LET r == mint(Store, caller, to, id, name, "Test Description", "ipfs://test")
                 IN RecordsKept(r) /\ (Exists(id) => r.res = "TokenAlreadyExists")
            /\ \A nft_type \in AllNftTypes :
                 LET r == mint_achv(Store, caller, to, nft_type)
                 IN RecordsKept(r) /\ (Exists(counter + 1) => r.res = "TokenAlreadyExists")
            /\ \A achievement_type \in AllRatingTypes :
                 LET r == mint_rating_achievement(Store, caller, to, achievement_type)
                 IN RecordsKept(r) /\ (Exists(counter + 1) => r.res = "TokenAlreadyExists")
            /\ LET r == batch_mint(Store, caller, <<to>>, <<"Test NFT">>,
                                   <<"Test Description">>, <<"ipfs://test">>)
               IN RecordsKept(r) /\ (Exists(counter + 1) => r.res = "TokenAlreadyExists")
            /\ \A score \in AllScores :
                 RecordsKept(update_reputation_score(Store, caller, to, score[1], score[2], 0))

\* C5: explicit-id mint by an authorized caller on an occupied id returns
\* TokenAlreadyExists and leaves every part of the state unchanged.
C5_MintOccupiedRejected ==
    \A caller \in Principals, to \in Principals, id \in AllIds, name \in AllNames :
        (Authorized(caller) /\ Exists(id)) =>
            LET r == mint(Store, caller, to, id, name, "Test Description", "ipfs://test")
            IN r.res = "TokenAlreadyExists" /\ r.st = Store

C5_Witness ==
    \E caller \in Principals, id \in AllIds :
        /\ Authorized(caller)
        /\ Exists(id)
        /\ mint(Store, caller, "p3", id, "Token 2", "Test Description", "ipfs://test").res
               = "TokenAlreadyExists"

NonTransferableTypes == {"Reputation", "ProjectMilestone", "RatingMilestone"}

\* C6 as stated: for every existing record of category Reputation,
\* ProjectMilestone or RatingMilestone, transfer(from, to, id) fails with
\* NonTransferableToken for every choice of from and to.
C6_AlwaysNonTransferable ==
    \A id \in DOMAIN metadata :
        metadata[id].achievement_type \in NonTransferableTypes =>
            \A from \in Principals, to \in Principals, authenticated \in BOOLEAN :
                transfer(Store, from, to, id, authenticated).res = "NonTransferableToken"

\* C6 amended: for every existing record of these categories transfer never
\* succeeds and changes nothing: it returns NonTransferableToken when from is
\* the authenticated current owner, and Unauthorized when from is not the
\* current owner.
C6_NonTransferable ==
    \A id \in DOMAIN metadata :
        metadata[id].achievement_type \in NonTransferableTypes =>
            \A from \in Principals, to \in Principals, authenticated \in BOOLEAN :
                LET r == transfer(Store, from, to, id, authenticated)
                IN /\ r.res # "Ok"
                   /\ r.st = Store
                   /\ (from = owner[id] /\ authenticated) => r.res = "NonTransferableToken"
                   /\ from # owner[id] => r.res = "Unauthorized"

C6_Witness ==
    \E id \in DOMAIN metadata :
        /\ metadata[id].achievement_type \in NonTransferableTypes
        /\ \E to \in Principals :
             /\ to # owner[id]
             /\ transfer(Store, owner[id], to, id, TRUE).res = "NonTransferableToken"

\* C7: for every existing record of category Standard or CustomAchievement,
\* transfer(from, to, id) where from is the authenticated current owner and to
\* is any other principal succeeds, and afterwards get_owner(id) = to.
C7_TransferableSucceeds ==
    \A id \in DOMAIN metadata :
        metadata[id].achievement_type \in {"Standard", "CustomAchievement"} =>
            \A to \in Principals \ {owner[id]} :
                LET r == transfer(Store, owner[id], to, id, TRUE)
                IN r.res = "Ok" /\ get_token_owner(r.st, id) = [ok |-> TRUE, val |-> to]

\* a Standard record that was transferred away from the principal it was
\* issued to, and can be transferred again
C7_Witness ==
    \E id \in DOMAIN metadata :
        /\ metadata[id].achievement_type = "Standard"
        /\ issued_to[id] # owner[id]
        /\ transfer(Store, owner[id], issued_to[id], id, TRUE).res = "Ok"

\* C8: after transfer(from, to, id) succeeds (from and to distinct), id is
\* absent from get_user_achievements(from) and occurs exactly once in
\* get_user_achievements(to).
C8_IndexAfterTransfer ==
    \A from \in Principals, to \in Principals, id \in AllIds :
        LET r == transfer(Store, from, to, id, TRUE)
        IN (from # to /\ r.res = "Ok") =>
               /\ Occurrences(get_user_achievements(r.st, from), id) = 0
               /\ Occurrences(get_user_achievements(r.st, to), id) = 1

C10_AdminBypass ==
    (admin # Nil /\ admin \notin DOMAIN minters) =>
        /\ \A to \in Holders, id \in AllIds :
             mint(Store, admin, to, id, "Test NFT", "Test Description", "ipfs://test").res
                 = IF Exists(id) THEN "TokenAlreadyExists" ELSE "Ok"
        /\ \A to \in Holders, nft_type \in NftTypes :
             mint_achv(Store, admin, to, nft_type).res = "Ok"
        /\ \A to \in Holders, achievement_type \in RatingTypes :
             mint_rating_achievement(Store, admin, to, achievement_type).res = "Ok"
        /\ \A id \in AllIds :
             burn(Store, admin, id).res = IF Exists(id) THEN "Ok" ELSE "TokenDoesNotExist"
        /\ \A n \in 0 .. MaxBatch, to \in Holders :
             batch_mint(Store, admin, Copies(n, to), Copies(n, "Test NFT"),
                        Copies(n, "Test Description"), Copies(n, "ipfs://test")).res = "Ok"
        /\ \A user \in Holders, score \in ScoreInputs :
             update_reputation_score(Store, admin, user, score[1], score[2], 0).res = "Ok"

\* the administrator is not a registered minter, somebody else is, and records
\* have been issued and burned
C10_Witness ==
    /\ admin # Nil
    /\ admin \notin DOMAIN minters
    /\ DOMAIN minters # {}
    /\ SomeBurned
    /\ DOMAIN owner # {}

\* the value of a rejected call: the error, the store as it is, no id assigned
Rejected(r, err) == r.res = err /\ r.st = Store /\ r.ids = <<>>

\* C11: once an administrator is set, a caller that is neither the
\* administrator nor a registered minter is rejected with Unauthorized by mint,
\* mint_achv, mint_rating_achievement, batch_mint, burn and
\* update_reputation_score, whatever the other arguments, and the rejected
\* call leaves the store as it was.
C11_UnauthorizedRejected ==
    admin # Nil =>
        \A caller \in Principals :
            (caller # admin /\ caller \notin DOMAIN minters) =>
                /\ \A to \in Holders, id \in AllIds, name \in AllNames :
                     Rejected(mint(Store, caller, to, id, name, "Test Description",
                                   "ipfs://test"), "Unauthorized")
                /\ \A to \in Holders, nft_type \in AllNftTypes :
                     Rejected(mint_achv(Store, caller, to, nft_type), "Unauthorized")
                /\ \A to \in Holders, achievement_type \in AllRatingTypes :
                     Rejected(mint_rating_achievement(Store, caller, to, achievement_type),
                              "Unauthorized")
                /\ \A to \in Holders, len \in 0 .. MaxBatch, n \in 0 .. MaxBatch :
                     Rejected(batch_mint(Store, caller, Copies(len, to), Copies(n, "Test NFT"),
                                         Copies(len, "Test Description"),
                                         Copies(len, "ipfs://test")), "Unauthorized")
                /\ \A id \in AllIds :
                     Rejected(burn(Store, caller, id), "Unauthorized")
                /\ \A user \in Holders, score \in AllScores :
                     Rejected(update_reputation_score(Store, caller, user, score[1],
                                                      score[2], 0), "Unauthorized")

\* a minter is registered, records exist, and a principal that is neither the
\* administrator nor a minter is refused the burn of an existing record
C11_Witness ==
    /\ admin # Nil
    /\ DOMAIN minters # {}
    /\ \E caller \in Principals, id \in AllIds :
         /\ caller # admin
         /\ caller \notin DOMAIN minters
         /\ Exists(id)
         /\ burn(Store, caller, id).res = "Unauthorized"

\* C12: init sets the administrator once: the first init(a) makes a the
\* administrator, and from then on the administrator changes only through
\* transfer_admin called by the current administrator; a later init does not
\* replace it.
C12_InitOnce ==
    /\ admin = Nil =>
         \A a \in Principals :
             init(Store, a).res = "Ok" /\ get_admin(init(Store, a).st) = a
    /\ admin # Nil =>
         /\ \A a \in Principals : get_admin(init(Store, a).st) = admin
         /\ \A caller \in Principals, new_admin \in Principals :
              get_admin(transfer_admin_impl(Store, caller, new_admin).st) # admin
                  => caller = admin

\* C13: once an administrator is set, transfer_admin(caller, new_admin)
\* succeeds exactly when caller is the current administrator; on success
\* get_admin() is new_admin and nothing else changes; any other caller, a
\* registered minter included, gets Unauthorized and the store stays as it was.
C13_TransferAdmin ==
    admin # Nil =>
        \A caller \in Principals, new_admin \in Principals :
            LET r == transfer_admin_impl(Store, caller, new_admin)
            IN IF caller = admin
               THEN /\ r.res = "Ok"
                    /\ get_admin(r.st) = new_admin
                    /\ r.st = [Store EXCEPT !.admin = new_admin]
               ELSE Rejected(r, "Unauthorized")

\* a registered minter that is not the administrator is refused, while the
\* administrator can hand the role to that minter
C13_Witness ==
    /\ admin # Nil
    /\ \E m \in DOMAIN minters :
         /\ m # admin
         /\ transfer_admin_impl(Store, m, m).res = "Unauthorized"
         /\ get_admin(transfer_admin_impl(Store, admin, m).st) = m

\* P holds of the value of every call that can be made in the current state,
\* method by method: the issuing methods, burn, transfer, and init with
\* transfer_admin.
IssuingCalls(P(_)) ==
    /\ \A c \in Principals, to \in Holders, id \in TokenIds :
         P(mint(Store, c, to, id, "Test NFT", "Test Description", "ipfs://test"))
    /\ \A c \in Principals, to \in Holders, ty \in NftTypes :
         P(mint_achv(Store, c, to, ty))
    /\ \A c \in Principals, to \in Holders, ty \in RatingTypes :
         P(mint_rating_achievement(Store, c, to, ty))
    /\ \A c \in Principals, to \in Holders, n \in 0 .. MaxBatch :
         P(batch_mint(Store, c, Copies(n, to), Copies(n, "Test NFT"),
                      Copies(n, "Test Description"), Copies(n, "ipfs://test")))
    /\ \A c \in Principals, u \in Holders, sc \in ScoreInputs :
         P(update_reputation_score(Store, c, u, sc[1], sc[2], 0))

BurnCalls(P(_)) ==
    \A c \in Principals, id \in AllIds : P(burn(Store, c, id))

TransferCalls(P(_)) ==
    \A from \in Principals, to \in Holders, id \in AllIds, au \in BOOLEAN :
        P(transfer(Store, from, to, id, au))

AdminCalls(P(_)) ==
    /\ \A a \in Principals : P(init(Store, a))
    /\ \A c \in Principals, a \in Principals : P(transfer_admin_impl(Store, c, a))

\* every method other than add_minter and remove_minter
OtherCalls(P(_)) == IssuingCalls(P) /\ BurnCalls(P) /\ TransferCalls(P) /\ AdminCalls(P)

\* C14: the minter set changes only through add_minter and remove_minter
\* called by the current administrator: any other caller, a registered minter
\* included, gets Unauthorized and the store stays as it was; after
\* add_minter(admin, m) is_minter(m) is true, after remove_minter(admin, m) it
\* is false, the other members are as before; a step that changes the set is
\* one of these two calls by the administrator.
C14_MinterSet ==
    /\ [](admin # Nil =>
            \A caller \in Principals, m \in Principals :
                LET a == add_minter_impl(Store, caller, m)
                    r == remove_minter_impl(Store, caller, m)
                IN IF caller = admin
                   THEN /\ a.res = "Ok"
                        /\ is_minter(a.st, m)
                        /\ \A x \in Principals \ {m} :
                             is_minter(a.st, x) <=> x \in DOMAIN minters
                        /\ r.res = "Ok"
                        /\ ~is_minter(r.st, m)
                        /\ \A x \in Principals \ {m} :
                             is_minter(r.st, x) <=> x \in DOMAIN minters
                   ELSE Rejected(a, "Unauthorized") /\ Rejected(r, "Unauthorized"))
    /\ [][minters' # minters =>
            /\ admin # Nil
            /\ \E m \in Principals :
                 \/ Store' = add_minter_impl(Store, admin, m).st
                 \/ Store' = remove_minter_impl(Store, admin, m).st]_vars

\* a registered minter that is not the administrator is refused both calls,
\* and the administrator can remove that minter
C14_Witness ==
    /\ admin # Nil
    /\ \E m \in DOMAIN minters :
         /\ m # admin
         /\ add_minter_impl(Store, m, "p3").res = "Unauthorized"
         /\ remove_minter_impl(Store, m, m).res = "Unauthorized"
         /\ ~is_minter(remove_minter_impl(Store, admin, m).st, m)

\* C15: add_minter and remove_minter are idempotent: for the administrator,
\* adding a registered minter and removing an address that is not registered
\* succeed and leave the set as it is, and a second identical call succeeds
\* and leaves the store that the first call left.
C15_Idempotent ==
    admin # Nil =>
        \A m \in Principals :
            LET a1 == add_minter_impl(Store, admin, m)
                a2 == add_minter_impl(a1.st, admin, m)
                r1 == remove_minter_impl(Store, admin, m)
                r2 == remove_minter_impl(r1.st, admin, m)
            IN /\ a1.res = "Ok" /\ a2.res = "Ok" /\ a2.st = a1.st
               /\ r1.res = "Ok" /\ r2.res = "Ok" /\ r2.st = r1.st
               /\ IF m \in DOMAIN minters THEN a1.st = Store ELSE r1.st = Store

\* a minter is registered: adding it again and removing another address are
\* the repeated calls
C15_Witness ==
    /\ admin # Nil
    /\ \E m \in DOMAIN minters, x \in Principals :
         /\ x \notin DOMAIN minters
         /\ add_minter_impl(Store, admin, m).res = "Ok"
         /\ remove_minter_impl(Store, admin, x).res = "Ok"

\* the number of threshold rules of spec 4.6 that (avg, n) satisfies
RulesSatisfied(avg, n) ==
    (IF n = 10 /\ avg >= 400 THEN 1 ELSE 0)
    + (IF avg >= 480 /\ n >= 20 THEN 1 ELSE 0)
    + (IF n >= 50 /\ avg >= 450 THEN 1 ELSE 0)

\* C16: update_reputation_score by an authorized caller succeeds and assigns
\* as many ids as threshold rules are satisfied by (avg, n); the ids are the
\* next ones of the counter, never assigned before; each of them has a record
\* owned by the subject with category RatingMilestone, and they are appended in
\* order to the subject's index.  A second identical call issues as many again
\* under further ids: there is no already-awarded guard.
C16_ThresholdIssuance ==
    \A caller \in Principals :
        Authorized(caller) =>
            \A user \in Holders, score \in AllScores :
                LET r == update_reputation_score(Store, caller, user, score[1], score[2], 0)
                    k == RulesSatisfied(score[1], score[2])
                    again == update_reputation_score(r.st, caller, user, score[1], score[2], 0)
                IN /\ r.res = "Ok"
                   /\ r.ids = [i \in 1 .. k |-> counter + i]
                   /\ \A id \in Range(r.ids) :
                        /\ id \notin Range(assigned)
                        /\ r.st.owner[id] = user
                        /\ r.st.metadata[id].achievement_type = "RatingMilestone"
                   /\ get_user_achievements(r.st, user)
                        = get_user_achievements(Store, user) \o r.ids
                   /\ again.res = "Ok"
                   /\ again.ids = [i \in 1 .. k |-> counter + k + i]

\* the veteran milestone, which only update_reputation_score issues, has been
\* issued and is indexed under its owner
C16_Witness ==
    \E id \in AllIds :
        /\ Exists(id)
        /\ id \in DOMAIN metadata
        /\ metadata[id].name = "Veteran Professional"
        /\ metadata[id].achievement_type = "RatingMilestone"
        /\ Occurrences(MapGet(user_achievements, owner[id], <<>>), id) >= 1

\* the values on both sides of every threshold of the three rules
RatingAverages == {399, 400, 449, 450, 479, 480}

TotalRatings == {9, 10, 11, 19, 20, 49, 50}

\* the numbers of ids that one update_reputation_score by the administrator
\* can assign in the current state
IssueCounts ==
    {Len(update_reputation_score(Store, admin, user, avg, n, 0).ids) :
        user \in Holders, avg \in RatingAverages, n \in TotalRatings}

\* C17 as stated: for each k in {0, 1, 2, 3} there are arguments for which one
\* update_reputation_score call issues exactly k records.
C17_AllCounts ==
    admin # Nil => \A k \in 0 .. 3 : k \in IssueCounts

\* C17, amended: for each k in {0, 1, 2} there are arguments for which one
\* update_reputation_score call issues exactly k records, and no arguments
\* issue three: the first rule asks for exactly 10 ratings, the second for at
\* least 20.
C17_Counts ==
    [](admin # Nil => IssueCounts = 0 .. 2)

\* one call has issued two milestones: the top-rated one and the veteran one
\* under consecutive ids
C17_Witness ==
    /\ admin # Nil
    /\ \E id \in AllIds :
         /\ {id, id + 1} \subseteq DOMAIN metadata
         /\ metadata[id].name = "Top Rated Professional"
         /\ metadata[id + 1].name = "Veteran Professional"
         /\ owner[id] = owner[id + 1]

\* the leaderboard value of a principal, 0 when it has no entry
Value(p) == MapGet(leaderboard, p, 0)

\* C18: for all principals A and B with leaderboard values a and b: a > b
\* implies rank(A) < rank(B), and a = b implies rank(A) = rank(B).
C18_RankOrdering ==
    \A A \in Principals, B \in Principals :
        /\ Value(A) > Value(B) => get_user_rank(Store, A) < get_user_rank(Store, B)
        /\ Value(A) = Value(B) => get_user_rank(Store, A) = get_user_rank(Store, B)

\* two principals with entries of different value, ranked 1 and 2, and a
\* third principal without entry
C18_Witness ==
    \E A \in DOMAIN leaderboard, B \in DOMAIN leaderboard :
        /\ leaderboard[A] > leaderboard[B]
        /\ get_user_rank(Store, A) = 1
        /\ get_user_rank(Store, B) = 2
        /\ \E C \in Principals : C \notin DOMAIN leaderboard

\* the counter of a category in a statistics map, 0 when it has no entry
Count(m, c) == MapGet(m, c, 0)

\* C19: the statistics are issuance counters: the counter of each category is
\* the number of records issued so far by the methods of that category (mint
\* and batch_mint: Standard; mint_achv: ProjectMilestone;
\* mint_rating_achievement and the milestones of update_reputation_score:
\* RatingMilestone); no step decreases a counter, and burn and transfer leave
\* every counter as it is.
C19_IssuanceCounters ==
    /\ [](/\ \A c \in AchievementType : Count(stats, c) = issued_count[c]
          /\ BurnCalls(LAMBDA r : get_achievement_stats(r.st) = stats)
          /\ TransferCalls(LAMBDA r : get_achievement_stats(r.st) = stats))
    /\ [][\A c \in AchievementType : Count(stats', c) >= Count(stats, c)]_vars

\* two records of one category have been issued, one record has been burned,
\* and a record can still be transferred
C19_Witness ==
    /\ \E c \in AchievementType : issued_count[c] >= 2
    /\ SomeBurned
    /\ \E id \in AllIds, to \in Holders :
         /\ Exists(id)
         /\ transfer(Store, owner[id], to, id, TRUE).res = "Ok"

\* every id with a record before the call and after it keeps its category
CategoryKept(r) ==
    \A id \in (DOMAIN metadata) \cap (DOMAIN r.st.metadata) :
        (Exists(id) /\ token_exists(r.st, id)) =>
            r.st.metadata[id].achievement_type = metadata[id].achievement_type

\* C20: the category of a record is fixed when it is issued: no call changes
\* the category of an id that has a record before the call and after it.
C20_CategoryImmutable == OtherCalls(CategoryKept)

\* C21: ids are never reused: after a successful burn of an id, no later call
\* (mint with an explicit id, or an issuance that takes the next id of the
\* counter) gives the id an owner again.
C21_NeverReused ==
    \A caller \in Principals, id \in AllIds :
        LET b == burn(Store, caller, id)
        IN b.res = "Ok" =>
            /\ ~get_token_owner(b.st, id).ok
            /\ \A c \in Principals, to \in Holders :
                 /\ ~get_token_owner(mint(b.st, c, to, id, "Test NFT", "Test Description",
                                          "ipfs://test").st, id).ok
                 /\ ~get_token_owner(mint_achv(b.st, c, to, "tencontr").st, id).ok
                 /\ ~get_token_owner(mint_rating_achievement(b.st, c, to, "ten_ratings").st,
                                     id).ok
                 /\ ~get_token_owner(batch_mint(b.st, c, <<to>>, <<"Test NFT">>,
                                                <<"Test Description">>, <<"ipfs://test">>).st,
                                     id).ok
                 /\ ~get_token_owner(update_reputation_score(b.st, c, to, 480, 50, 0).st,
                                     id).ok

\* the calls of add_minter and remove_minter that can be made in the current
\* state
MinterCalls(P(_)) ==
    \A c \in Principals, m \in Principals :
        P(add_minter_impl(Store, c, m)) /\ P(remove_minter_impl(Store, c, m))

\* the calls of batch_mint whose names, descriptions or uris differ in length
\* from tos
MismatchedBatchCalls(P(_)) ==
    \A c \in Principals, to \in Holders, len \in 0 .. MaxBatch, off \in 1 .. 3 :
        P(batch_mint(Store, c, Copies(len, to),
                     Copies(IF off = 1 THEN OtherLen(len) ELSE len, "Test NFT"),
                     Copies(IF off = 2 THEN OtherLen(len) ELSE len, "Test Description"),
                     Copies(IF off = 3 THEN OtherLen(len) ELSE len, "ipfs://test")))

\* a call that does not return Ok leaves the whole store as it was and assigns
\* no id
Atomic(r) == r.res # "Ok" => (r.st = Store /\ r.ids = <<>>)

\* C22: all-or-nothing: whenever a call of a public method returns an error,
\* the owner map, the metadata, the indexes, the statistics, the leaderboard,
\* the counter, the administrator, the minter set and the reputation records
\* are all as before the call.
C22_AllOrNothing ==
    [](/\ OtherCalls(Atomic)
       /\ MinterCalls(Atomic)
       /\ MismatchedBatchCalls(Atomic))

\* a state in which calls fail with each of the four errors: a record that
\* its owner cannot transfer and whose id cannot be minted again, an id
\* without record, and a principal without any role
C22_Witness ==
    /\ admin # Nil
    /\ \E id \in AllIds, to \in Holders :
         /\ Exists(id)
         /\ transfer(Store, owner[id], to, id, TRUE).res = "NonTransferableToken"
         /\ mint(Store, admin, to, id, "Test NFT", "Test Description", "ipfs://test").res
              = "TokenAlreadyExists"
    /\ \E id \in AllIds : burn(Store, admin, id).res = "TokenDoesNotExist"
    /\ \E c \in Principals : burn(Store, c, 0).res = "Unauthorized"

\* texts that differ from one position of a batch to the next
NameAt(i) == IF i % 2 = 1 THEN "Test NFT" ELSE "Token 2"

DescriptionAt(i) == IF i % 2 = 1 THEN "Test Description" ELSE "Description 2"

UriAt(i) == IF i % 2 = 1 THEN "ipfs://test" ELSE "ipfs://2"

\* C23: batch_mint processes its entries in input order: for an authorized
\* caller, k entries of equal lengths and the counter at c, it succeeds,
\* assigns the ids c+1 .. c+k and leaves the counter at c+k; record c+i has
\* owner tos[i], the i-th name, description and uri and category Standard; the
\* ids of each owner are appended to its index in that order; no other record
\* is written.
C23_BatchInOrder ==
    [](\A caller \in Principals :
        Authorized(caller) =>
            \A tos \in SeqsUpTo(Holders, MaxBatch) :
                LET k == Len(tos)
                    r == batch_mint(Store, caller, tos, [i \in 1 .. k |-> NameAt(i)],
                                    [i \in 1 .. k |-> DescriptionAt(i)],
                                    [i \in 1 .. k |-> UriAt(i)])
                    new == (counter + 1) .. (counter + k)
                IN /\ r.res = "Ok"
                   /\ r.ids = [i \in 1 .. k |-> counter + i]
                   /\ r.st.counter = counter + k
                   /\ \A i \in 1 .. k :
                        /\ r.st.owner[counter + i] = tos[i]
                        /\ r.st.metadata[counter + i]
                             = Metadata(NameAt(i), DescriptionAt(i), UriAt(i), "Standard")
                   /\ \A p \in Principals :
                        get_user_achievements(r.st, p)
                            = get_user_achievements(Store, p)
                                \o SelectSeq(r.ids, LAMBDA id : tos[id - counter] = p)
                   /\ DOMAIN r.st.owner = DOMAIN owner \cup new
                   /\ \A id \in DOMAIN owner \ new :
                        r.st.owner[id] = owner[id] /\ r.st.metadata[id] = metadata[id])

\* two consecutive ids of the counter carry Standard records of different
\* owners: a batch went to two principals
C23_Witness ==
    \E id \in 1 .. counter :
        /\ {id, id + 1} \subseteq Range(assigned)
        /\ Exists(id) /\ Exists(id + 1)
        /\ metadata[id].achievement_type = "Standard"
        /\ metadata[id + 1].achievement_type = "Standard"
        /\ owner[id] # owner[id + 1]

\* C24: batch_mint by an authorized caller with names, descriptions or uris
\* of another length than tos returns Unauthorized before any entry is
\* processed: the store stays as it was and no id is assigned.
C24_LengthMismatch ==
    \A caller \in Principals :
        Authorized(caller) =>
            \A to \in Holders, len \in 0 .. MaxBatch, n \in 0 .. MaxBatch, off \in 1 .. 3 :
                n # len =>
                    Rejected(batch_mint(Store, caller, Copies(len, to),
                                        Copies(IF off = 1 THEN n ELSE len, "Test NFT"),
                                        Copies(IF off = 2 THEN n ELSE len, "Test Description"),
                                        Copies(IF off = 3 THEN n ELSE len, "ipfs://test")),
                             "Unauthorized")

\* records have been issued, and a registered minter passes one recipient and
\* no name
C24_Witness ==
    /\ admin # Nil
    /\ counter >= 1
    /\ DOMAIN owner # {}
    /\ \E m \in DOMAIN minters, to \in Holders :
         batch_mint(Store, m, <<to>>, <<>>, <<"Test Description">>, <<"ipfs://test">>).res
             = "Unauthorized"

\* C25: a successful transfer(from, to, id) leaves leaderboard[from] equal to
\* the length of the index of from and leaderboard[to] equal to the length of
\* the index of to, both as they are after the transfer.
C25_TransferRefreshes ==
    \A from \in Principals, to \in Principals, id \in AllIds :
        LET r == transfer(Store, from, to, id, TRUE)
        IN r.res = "Ok" =>
            /\ {from, to} \subseteq DOMAIN get_leaderboard(r.st)
            /\ get_leaderboard(r.st)[from] = Len(get_user_achievements(r.st, from))
            /\ get_leaderboard(r.st)[to] = Len(get_user_achievements(r.st, to))

\* a record issued to one principal is owned by another, and both have
\* leaderboard entries that agree with their indexes
C25_Witness ==
    \E id \in AllIds :
        /\ Exists(id)
        /\ issued_to[id] # owner[id]
        /\ {issued_to[id], owner[id]} \subseteq DOMAIN leaderboard
        /\ leaderboard[owner[id]] = Len(MapGet(user_achievements, owner[id], <<>>))
        /\ leaderboard[issued_to[id]] = Len(MapGet(user_achievements, issued_to[id], <<>>))
        /\ \E to \in Holders : transfer(Store, owner[id], to, id, TRUE).res = "Ok"

\* scores that satisfy no rule, one rule and two rules
MilestoneScores == {<<399, 10>>, <<400, 10>>, <<480, 50>>}

\* C26: a successful update_reputation_score recomputes the leaderboard entry
\* of the subject last: the entry equals the length of the subject's index
\* after the call, the milestones issued by the call included, and the entry
\* of no other principal changes.
C26_UpdateRefreshes ==
    \A caller \in Principals :
        Authorized(caller) =>
            \A user \in Holders, score \in MilestoneScores :
                LET r == update_reputation_score(Store, caller, user, score[1], score[2], 0)
                    lb == get_leaderboard(r.st)
                IN /\ r.res = "Ok"
                   /\ user \in DOMAIN lb
                   /\ lb[user] = Len(get_user_achievements(r.st, user))
                   /\ lb[user] = Len(MapGet(user_achievements, user, <<>>)) + Len(r.ids)
                   /\ DOMAIN lb = DOMAIN leaderboard \cup {user}
                   /\ \A p \in DOMAIN leaderboard \ {user} : lb[p] = leaderboard[p]

\* a subject with a stored score holds the two milestones of one call and its
\* leaderboard entry counts them, while another holder has no entry
C26_Witness ==
    \E p \in DOMAIN reputation, q \in Holders :
        /\ p \in DOMAIN leaderboard
        /\ leaderboard[p] = Len(MapGet(user_achievements, p, <<>>))
        /\ leaderboard[p] >= 2
        /\ q # p
        /\ q \notin DOMAIN leaderboard

\* the calls of mint, mint_achv, mint_rating_achievement and batch_mint that
\* can be made in the current state
BaseIssuingCalls(P(_)) ==
    /\ \A c \in Principals, to \in Holders, id \in TokenIds :
         P(mint(Store, c, to, id, "Test NFT", "Test Description", "ipfs://test"))
    /\ \A c \in Principals, to \in Holders, ty \in NftTypes :
         P(mint_achv(Store, c, to, ty))
    /\ \A c \in Principals, to \in Holders, ty \in RatingTypes :
         P(mint_rating_achievement(Store, c, to, ty))
    /\ \A c \in Principals, to \in Holders, n \in 0 .. MaxBatch :
         P(batch_mint(Store, c, Copies(n, to), Copies(n, "Test NFT"),
                      Copies(n, "Test Description"), Copies(n, "ipfs://test")))

\* the leaderboard entry of p in a map, -1 when there is none
Entry(lb, p) == MapGet(lb, p, -1)

\* the step is a successful transfer from or to p
TransferStepOf(p) ==
    \E from \in Principals, to \in Principals, id \in AllIds :
        /\ p \in {from, to}
        /\ transfer(Store, from, to, id, TRUE).res = "Ok"
        /\ Store' = transfer(Store, from, to, id, TRUE).st

\* the step is a successful update_reputation_score for p
UpdateStepOf(p) ==
    \E caller \in Principals, score \in ScoreInputs, timestamp \in Timestamps :
        /\ update_reputation_score(Store, caller, p, score[1], score[2], timestamp).res = "Ok"
        /\ Store' = update_reputation_score(Store, caller, p, score[1], score[2], timestamp).st

\* C27: the leaderboard is only as fresh as its last recomputation: mint,
\* mint_achv, mint_rating_achievement, batch_mint and burn leave the
\* leaderboard map as it is, and a step that changes the entry of a principal
\* is a successful transfer from or to that principal or a successful
\* update_reputation_score for it.
C27_LeaderboardStaleness ==
    /\ [](/\ BaseIssuingCalls(LAMBDA r : get_leaderboard(r.st) = leaderboard)
          /\ BurnCalls(LAMBDA r : get_leaderboard(r.st) = leaderboard))
    /\ [][\A p \in Principals :
             Entry(leaderboard', p) # Entry(leaderboard, p)
                 => (TransferStepOf(p) \/ UpdateStepOf(p))]_vars

\* one principal has an entry that no longer agrees with its index, another
\* holds a record and has no entry
C27_Witness ==
    /\ \E p \in DOMAIN leaderboard :
         leaderboard[p] # Len(MapGet(user_achievements, p, <<>>))
    /\ \E q \in Holders :
         /\ q \notin DOMAIN leaderboard
         /\ Len(MapGet(user_achievements, q, <<>>)) >= 1

\* C28: the errors of transfer(from, to, id) in their order: an id without
\* record gives TokenDoesNotExist; a record whose owner is not from gives
\* Unauthorized, whatever its category; NonTransferableToken is returned only
\* when from is the owner and the category is neither Standard nor
\* CustomAchievement, and is returned then to the authenticated owner.  In each
\* case the store stays as it was.
C28_TransferErrors ==
    [](\A from \in Principals, to \in Holders, id \in AllIds, au \in BOOLEAN :
        LET r == transfer(Store, from, to, id, au)
        IN /\ ~Exists(id) => Rejected(r, "TokenDoesNotExist")
           /\ (Exists(id) /\ owner[id] # from) => Rejected(r, "Unauthorized")
           /\ r.res = "NonTransferableToken" =>
                /\ Exists(id)
                /\ owner[id] = from
                /\ metadata[id].achievement_type \notin {"Standard", "CustomAchievement"}
                /\ Rejected(r, "NonTransferableToken")
           /\ (/\ Exists(id)
               /\ owner[id] = from
               /\ au
               /\ metadata[id].achievement_type \notin {"Standard", "CustomAchievement"})
                => r.res = "NonTransferableToken")

\* a record of a category that cannot be transferred: its owner gets
\* NonTransferableToken, another principal Unauthorized, and an id without
\* record TokenDoesNotExist
C28_Witness ==
    \E id \in AllIds, other \in Principals, missing \in AllIds :
        /\ Exists(id)
        /\ other # owner[id]
        /\ transfer(Store, owner[id], other, id, TRUE).res = "NonTransferableToken"
        /\ transfer(Store, other, owner[id], id, TRUE).res = "Unauthorized"
        /\ transfer(Store, owner[id], other, missing, TRUE).res = "TokenDoesNotExist"

\* C29: burn is gated by the mint authorization, not by ownership: once an
\* administrator is set, a caller that is neither administrator nor minter
\* gets Unauthorized, also as owner of the id and also for an id without
\* record; an authorized caller gets TokenDoesNotExist for an id without
\* record and succeeds for an existing id, whoever owns it.
C29_BurnGating ==
    admin # Nil =>
        \A caller \in Principals, id \in AllIds :
            LET r == burn(Store, caller, id)
            IN IF caller # admin /\ caller \notin DOMAIN minters
               THEN Rejected(r, "Unauthorized")
               ELSE IF ~Exists(id)
                    THEN Rejected(r, "TokenDoesNotExist")
                    ELSE r.res = "Ok" /\ id \notin DOMAIN r.st.owner

\* a principal without role owns a record and is refused its burn and the
\* burn of an id without record, while the administrator, who does not own
\* the record, can burn it
C29_Witness ==
    /\ admin # Nil
    /\ \E id \in AllIds, missing \in AllIds :
         /\ Exists(id)
         /\ owner[id] # admin
         /\ owner[id] \notin DOMAIN minters
         /\ burn(Store, owner[id], id).res = "Unauthorized"
         /\ ~Exists(missing)
         /\ burn(Store, owner[id], missing).res = "Unauthorized"
         /\ burn(Store, admin, missing).res = "TokenDoesNotExist"
         /\ burn(Store, admin, id).res = "Ok"

\* C30: the rank of a principal is 1 plus the number of leaderboard entries
\* whose value is strictly greater than the principal's, a principal without
\* entry counting as 0; the rank is at least 1, and principals of equal value
\* have the same rank.
C30_RankFormula ==
    \A p \in Principals :
        LET v == IF p \in DOMAIN leaderboard THEN leaderboard[p] ELSE 0
        IN /\ get_user_rank(Store, p)
                = 1 + Cardinality({q \in DOMAIN leaderboard : leaderboard[q] > v})
           /\ get_user_rank(Store, p) >= 1
           /\ \A q \in Principals :
                (q \in DOMAIN leaderboard /\ leaderboard[q] = v)
                    => get_user_rank(Store, q) = get_user_rank(Store, p)

\* two principals tied at a positive value share rank 1 and a principal
\* without entry has rank 3
C30_Witness ==
    \E A \in DOMAIN leaderboard, B \in DOMAIN leaderboard, C \in Principals :
        /\ A # B
        /\ leaderboard[A] = leaderboard[B]
        /\ leaderboard[A] > 0
        /\ C \notin DOMAIN leaderboard
        /\ get_user_rank(Store, A) = 1
        /\ get_user_rank(Store, B) = 1
        /\ get_user_rank(Store, C) = 3

\* C31: remove_user_achievement_index(user, id) rebuilds the list of user
\* without any occurrence of id, the other ids in their order, and leaves the
\* list of every other principal and the rest of the store as they are; when
\* user has no list it changes nothing.
C31_RemoveIndex ==
    \A user \in Principals, id \in AllIds :
        LET s1 == remove_user_achievement_index(Store, user, id)
        IN IF user \in DOMAIN user_achievements
           THEN /\ DOMAIN s1.user_achievements = DOMAIN user_achievements
                /\ s1.user_achievements[user]
                     = SelectSeq(user_achievements[user], LAMBDA x : x # id)
                /\ Occurrences(s1.user_achievements[user], id) = 0
                /\ \A p \in DOMAIN user_achievements \ {user} :
                     s1.user_achievements[p] = user_achievements[p]
                /\ s1 = [Store EXCEPT !.user_achievements = s1.user_achievements]
           ELSE s1 = Store

\* the list of one principal holds an id twice, another principal has a list
\* too and a third has none
C31_Witness ==
    \E user \in DOMAIN user_achievements, id \in AllIds :
        /\ Occurrences(user_achievements[user], id) >= 2
        /\ \E p \in DOMAIN user_achievements : p # user
        /\ \E q \in Principals : q \notin DOMAIN user_achievements

\* C32: in every reachable state no index list holds an id twice.
C32_NoDuplicates ==
    \A p \in DOMAIN user_achievements, id \in AllIds :
        Occurrences(user_achievements[p], id) <= 1

KnownNftTypes == {"tencontr", "5stars5x", "toprated"}

\* C33: mint_achv by an authorized caller succeeds whatever the type tag is:
\* it draws exactly one id from the counter and writes exactly one record, at
\* that id, owned by `to`, of category ProjectMilestone; a tag outside the three
\* known ones gets the generic texts and is never refused.
C33_AnyTag ==
    \A caller \in Principals, to \in Principals, nft_type \in AllNftTypes :
        Authorized(caller) =>
            LET r == mint_achv(Store, caller, to, nft_type)
                id == counter + 1
            IN /\ r.res = "Ok"
               /\ r.ids = <<id>>
               /\ r.st.counter = id
               /\ DOMAIN r.st.owner = DOMAIN owner \cup {id}
               /\ DOMAIN r.st.metadata = DOMAIN metadata \cup {id}
               /\ \A k \in DOMAIN owner \ {id} :
                     r.st.owner[k] = owner[k] /\ r.st.metadata[k] = metadata[k]
               /\ r.st.owner[id] = to
               /\ r.st.metadata[id].achievement_type = "ProjectMilestone"
               /\ nft_type \notin KnownNftTypes =>
                     /\ r.st.metadata[id].name = "Achievement NFT"
                     /\ r.st.metadata[id].description = "Awarded for a special achievement."
                     /\ r.st.metadata[id].uri = "ipfs://achievement-generic"

\* a minter who is not the administrator is registered, mint_achv has issued a
\* record, and a further call with an unknown tag gives the generic record
C33_Witness ==
    /\ \E id \in DOMAIN metadata :
          /\ id \in Range(assigned)
          /\ metadata[id].achievement_type = "ProjectMilestone"
          /\ metadata[id].name = "10 Completed Contracts"
    /\ \E caller \in DOMAIN minters, to \in Holders :
          /\ caller # admin
          /\ counter < MaxIssued
          /\ mint_achv(Store, caller, to, "other").res = "Ok"
          /\ mint_achv(Store, caller, to, "other").st.metadata[counter + 1].name
               = "Achievement NFT"

\* the entry of p in map m is the same in map n (both absent, or both present
\* and equal)
SameEntry(m, n, p) ==
    /\ p \in DOMAIN m <=> p \in DOMAIN n
    /\ p \in DOMAIN m => m[p] = n[p]

\* C34: frame of transfer. A successful transfer(from, to, id) makes `to` the
\* owner of id and changes nothing besides the owner of id, the index lists of
\* from and to and the leaderboard entries of from and to: the metadata of
\* every record (that of id included), the owner of every other record, the
\* statistics, the counter, the administrator, the minter set and the stored
\* reputation scores stay as they were.
C34_TransferFrame ==
    \A id \in DOMAIN owner, to \in Principals :
        LET from == owner[id]
            r == transfer(Store, from, to, id, TRUE)
        IN r.res = "Ok" =>
            /\ r.st.owner = [owner EXCEPT ![id] = to]
            /\ r.st.metadata = metadata
            /\ r.st.stats = stats
            /\ r.st.counter = counter
            /\ r.st.admin = admin
            /\ r.st.minters = minters
            /\ r.st.reputation = reputation
            /\ \A p \in Principals \ {from, to} :
                  /\ SameEntry(r.st.user_achievements, user_achievements, p)
                  /\ SameEntry(r.st.leaderboard, leaderboard, p)

\* a record has been transferred and can be transferred again, while another
\* record and the statistics exist
C34_Witness ==
    \E id \in DOMAIN owner, k \in DOMAIN owner, to \in Holders :
        /\ k # id
        /\ to # owner[id]
        /\ issued_to[id] # owner[id]
        /\ DOMAIN stats # {}
        /\ owner[id] \in DOMAIN leaderboard
        /\ transfer(Store, owner[id], to, id, TRUE).res = "Ok"

\* C35: in every reachable state every existing record is indexed under its
\* owner: its id occurs at least once in get_user_achievements(owner).
C35_OwnerIndexed ==
    \A id \in DOMAIN owner :
        Occurrences(get_user_achievements(Store, owner[id]), id) >= 1

\* the list of a principal still holds the id of a record that was written
\* again from the counter and now belongs to another principal
C35_Witness ==
    \E id \in DOMAIN owner, p \in DOMAIN user_achievements :
        /\ owner[id] # p
        /\ Occurrences(user_achievements[p], id) >= 1
        /\ Occurrences(user_achievements[owner[id]], id) >= 1
        /\ id \in Range(assigned)

\* C36: after a successful burn(caller, id) the id occurs in the index list of
\* no principal, not only in that of the owner at the time of the burn.
C36_BurnClearsIndex ==
    \A caller \in Principals, id \in DOMAIN owner :
        LET r == burn(Store, caller, id)
        IN r.res = "Ok" =>
            \A p \in Principals :
                Occurrences(get_user_achievements(r.st, p), id) = 0

\* the categories of the records written by mint_achv, mint_rating_achievement
\* and the automatic issuance
MilestoneTypes == {"ProjectMilestone", "RatingMilestone"}

\* C37: milestone records are soulbound. A record of category ProjectMilestone
\* or RatingMilestone is owned by the principal it was issued to for as long as
\* it exists: no step changes its owner, the only way it leaves that owner is
\* the burn that destroys it.
C37_Soulbound ==
    /\ [](\A id \in DOMAIN owner :
            metadata[id].achievement_type \in MilestoneTypes =>
                owner[id] = issued_to[id])
    /\ [][\A id \in DOMAIN owner :
            (metadata[id].achievement_type \in MilestoneTypes /\ id \in DOMAIN owner')
                => /\ owner'[id] = owner[id]
                   /\ metadata'[id].achievement_type = metadata[id].achievement_type]_vars

\* a milestone record exists whose transfer by its owner is refused, while
\* another record has changed hands by transfer
C37_Witness ==
    \E id \in DOMAIN owner, k \in DOMAIN owner, to \in Holders :
        /\ metadata[id].achievement_type \in MilestoneTypes
        /\ to # owner[id]
        /\ transfer(Store, owner[id], to, id, TRUE).res = "NonTransferableToken"
        /\ k # id
        /\ issued_to[k] # owner[k]

\* the call with value r was refused with err and left the store s
RejectedIn(s, r, err) == r.res = err /\ r.st = s /\ r.ids = <<>>

\* every minter-gated and every administrator-gated call by a is refused in
\* store s
GatedRejected(s, a) ==
    /\ \A to \in Holders, id \in TokenIds :
         RejectedIn(s, mint(s, a, to, id, "Test NFT", "Test Description", "ipfs://test"),
                    "Unauthorized")
    /\ \A to \in Holders :
         /\ RejectedIn(s, mint_achv(s, a, to, "tencontr"), "Unauthorized")
         /\ RejectedIn(s, mint_rating_achievement(s, a, to, "ten_ratings"), "Unauthorized")
         /\ \A n \in 0 .. MaxBatch :
              RejectedIn(s, batch_mint(s, a, Copies(n, to), Copies(n, "Test NFT"),
                                       Copies(n, "Test Description"),
                                       Copies(n, "ipfs://test")), "Unauthorized")
         /\ RejectedIn(s, update_reputation_score(s, a, to, 480, 50, 0), "Unauthorized")
    /\ \A id \in AllIds : RejectedIn(s, burn(s, a, id), "Unauthorized")
    /\ \A m \in Principals :
         /\ RejectedIn(s, add_minter_impl(s, a, m), "Unauthorized")
         /\ RejectedIn(s, remove_minter_impl(s, a, m), "Unauthorized")
         /\ RejectedIn(s, transfer_admin_impl(s, a, m), "Unauthorized")

\* C38: privilege revocation. A successful transfer_admin(a, b) with a # b and
\* a not a minter leaves a store in which every minter-gated and every
\* administrator-gated call by a returns Unauthorized and changes nothing; and
\* in every later state in which a is neither the administrator nor a minter,
\* that is until a is added as a minter or made administrator again, these
\* calls by a are refused in the same way.
C38_Revocation ==
    /\ [](admin # Nil =>
            \A b \in Principals :
                (b # admin /\ admin \notin DOMAIN minters) =>
                    LET t == transfer_admin_impl(Store, admin, b)
                    IN /\ t.res = "Ok"
                       /\ t.st = [Store EXCEPT !.admin = b]
                       /\ GatedRejected(t.st, admin))
    /\ [](admin # Nil =>
            \A a \in Admins :
                (a # admin /\ a \notin DOMAIN minters) => GatedRejected(Store, a))

\* a record exists; the administrator is not a minter, can burn the record and
\* can hand the role to another principal, after which the burn is refused; and
\* that other principal, holding neither role now, is refused the burn
C38_Witness ==
    /\ admin # Nil
    /\ admin \notin DOMAIN minters
    /\ \E b \in Admins, id \in DOMAIN owner :
          /\ b # admin
          /\ b \notin DOMAIN minters
          /\ transfer_admin_impl(Store, admin, b).res = "Ok"
          /\ burn(transfer_admin_impl(Store, admin, b).st, admin, id).res = "Unauthorized"
          /\ burn(Store, admin, id).res = "Ok"
          /\ burn(Store, b, id).res = "Unauthorized"

====
